---- MODULE Spec2Model ----
(***************************************************************************)
(* Model of vps_auto_checkin (src/main.py): the batch sign-in loop of      *)
(* main, the two-request protocol of sign_one, the redundancy classifier   *)
(* is_already_checked_in, the run verdict and the notification delivery.   *)
(*                                                                         *)
(* Text is modelled as a sequence of one-character strings, so that        *)
(* strip, lower, split, slicing and substring search are computed as the   *)
(* Python code computes them.  A character outside ASCII is one element    *)
(* written by its code point, "U+XXXX".                                    *)
(***************************************************************************)
EXTENDS Integers, Sequences, FiniteSets, TLC

(***************************************************************************)
(* Bounds of the model.                                                    *)
(***************************************************************************)
MaxAccounts == 2

\* sys.stdout.encoding in the runs of the model: the standard output is a
\* UTF-8 stream, with any error handler
StdoutEncoding == "utf-8"

(***************************************************************************)
(* Python string primitives.                                               *)
(***************************************************************************)
Chars(s) == [i \in 1..Len(s) |-> SubSeq(s, i, i)]

Min(a, b) == IF a <= b THEN a ELSE b

\* index of the first occurrence of the character c in s, 0 when absent
IndexOf(s, c) ==
    IF \E i \in 1..Len(s) : s[i] = c
    THEN CHOOSE i \in 1..Len(s) : s[i] = c /\ \A j \in 1..(i - 1) : s[j] # c
    ELSE 0

\* sep.join(parts)
RECURSIVE Join(_, _)
Join(parts, sep) ==
    IF parts = <<>> THEN <<>>
    ELSE IF Len(parts) = 1 THEN parts[1]
    ELSE parts[1] \o sep \o Join(Tail(parts), sep)

\* k in m, for strings
Contains(m, k) ==
    \E i \in 0..(Len(m) - Len(k)) : SubSeq(m, i + 1, i + Len(k)) = k

\* s[:n]
Prefix(s, n) == SubSeq(s, 1, Min(n, Len(s)))

\* c * n
Rep(c, n) == [i \in 1..n |-> c]

(***************************************************************************)
(* Code points.  A character is written as itself when it is a printable   *)
(* ASCII character other than the backquote or one of "\t", "\n", "\f",     *)
(* "\r", and as "U+" followed by its code point in hexadecimal otherwise.   *)
(***************************************************************************)
AsciiPrintable ==
    Chars(" !\"#$%&'()*+,-./0123456789:;<=>?@ABCDEFGHIJKLMNOPQRSTUVWXYZ[\\]^_")
    \o <<"U+0060">> \o Chars("abcdefghijklmnopqrstuvwxyz{|}~")

HexDigits == Chars("0123456789ABCDEF")

\* int(h, 16)
RECURSIVE HexValue(_)
HexValue(h) ==
    IF h = <<>> THEN 0
    ELSE 16 * HexValue(SubSeq(h, 1, Len(h) - 1)) + IndexOf(HexDigits, h[Len(h)]) - 1

\* ord(c)
CodePoint(c) ==
    IF Len(c) > 1 THEN HexValue(SubSeq(Chars(c), 3, Len(c)))
    ELSE CASE c = "\t" -> 9
           [] c = "\n" -> 10
           [] c = "\f" -> 12
           [] c = "\r" -> 13
           [] OTHER -> 31 + IndexOf(AsciiPrintable, c)

\* "%X" % n
RECURSIVE Hex(_)
Hex(n) ==
    IF n < 16 THEN HexDigits[n + 1] ELSE Hex(n \div 16) \o HexDigits[(n % 16) + 1]

\* chr(n) for n >= 32
CharOf(n) ==
    IF n <= 126 THEN AsciiPrintable[n - 31]
    ELSE IF n < 256 THEN "U+00" \o Hex(n)
    ELSE IF n < 4096 THEN "U+0" \o Hex(n)
    ELSE "U+" \o Hex(n)

\* the index of the range of ranges[lo..hi] that holds cp, 0 when there is
\* none; a range is a tuple that starts with its first and last code point,
\* and the ranges are in increasing order
RECURSIVE FindRange(_, _, _, _)
FindRange(ranges, cp, lo, hi) ==
    IF lo > hi THEN 0
    ELSE LET mid == (lo + hi) \div 2 IN
         IF cp < ranges[mid][1] THEN FindRange(ranges, cp, lo, mid - 1)
         ELSE IF cp > ranges[mid][2] THEN FindRange(ranges, cp, mid + 1, hi)
         ELSE mid

\* the characters str.strip() removes: those of Py_UNICODE_ISSPACE
WhitespaceCodePoints ==
    {9, 10, 11, 12, 13, 28, 29, 30, 31, 32, 133, 160, 5760} \cup (8192..8202)
    \cup {8232, 8233, 8239, 8287, 12288}

IsSpace(c) ==
    \/ c \in {" ", "\t", "\n", "\r", "\f"}
    \/ Len(c) > 1 /\ CodePoint(c) \in WhitespaceCodePoints

RECURSIVE lstrip(_)
lstrip(s) == IF s # <<>> /\ IsSpace(Head(s)) THEN lstrip(Tail(s)) ELSE s

RECURSIVE rstrip(_)
rstrip(s) ==
    IF s # <<>> /\ IsSpace(s[Len(s)]) THEN rstrip(SubSeq(s, 1, Len(s) - 1)) ELSE s

\* str.strip()
strip(s) == rstrip(lstrip(s))

(***************************************************************************)
(* str.lower(), from the Unicode tables of CPython 3.11.  A row of         *)
(* LowerRuns is <<first, last, step, delta>>: the code points first,       *)
(* first + step, ..., last have the lowercase code point + delta.  U+0130  *)
(* is the one character whose lowercase is two characters.  U+03A3 becomes *)
(* U+03C2 in the Final_Sigma context (after a cased character and not      *)
(* before one, case-ignorable characters skipped) and U+03C3 elsewhere.    *)
(***************************************************************************)
LowerRuns ==
    << <<65, 90, 1, 32>>, <<192, 214, 1, 32>>, <<216, 222, 1, 32>>, <<256, 302, 2, 1>>,
       <<306, 310, 2, 1>>, <<313, 327, 2, 1>>, <<330, 374, 2, 1>>, <<376, 376, 1, -121>>,
       <<377, 381, 2, 1>>, <<385, 385, 1, 210>>, <<386, 388, 2, 1>>, <<390, 390, 1, 206>>,
       <<391, 391, 1, 1>>, <<393, 394, 1, 205>>, <<395, 395, 1, 1>>, <<398, 398, 1, 79>>,
       <<399, 399, 1, 202>>, <<400, 400, 1, 203>>, <<401, 401, 1, 1>>, <<403, 403, 1, 205>>,
       <<404, 404, 1, 207>>, <<406, 406, 1, 211>>, <<407, 407, 1, 209>>, <<408, 408, 1, 1>>,
       <<412, 412, 1, 211>>, <<413, 413, 1, 213>>, <<415, 415, 1, 214>>, <<416, 420, 2, 1>>,
       <<422, 422, 1, 218>>, <<423, 423, 1, 1>>, <<425, 425, 1, 218>>, <<428, 428, 1, 1>>,
       <<430, 430, 1, 218>>, <<431, 431, 1, 1>>, <<433, 434, 1, 217>>, <<435, 437, 2, 1>>,
       <<439, 439, 1, 219>>, <<440, 440, 1, 1>>, <<444, 444, 1, 1>>, <<452, 452, 1, 2>>,
       <<453, 453, 1, 1>>, <<455, 455, 1, 2>>, <<456, 456, 1, 1>>, <<458, 458, 1, 2>>,
       <<459, 475, 2, 1>>, <<478, 494, 2, 1>>, <<497, 497, 1, 2>>, <<498, 500, 2, 1>>,
       <<502, 502, 1, -97>>, <<503, 503, 1, -56>>, <<504, 542, 2, 1>>, <<544, 544, 1, -130>>,
       <<546, 562, 2, 1>>, <<570, 570, 1, 10795>>, <<571, 571, 1, 1>>, <<573, 573, 1, -163>>,
       <<574, 574, 1, 10792>>, <<577, 577, 1, 1>>, <<579, 579, 1, -195>>, <<580, 580, 1, 69>>,
       <<581, 581, 1, 71>>, <<582, 590, 2, 1>>, <<880, 882, 2, 1>>, <<886, 886, 1, 1>>,
       <<895, 895, 1, 116>>, <<902, 902, 1, 38>>, <<904, 906, 1, 37>>, <<908, 908, 1, 64>>,
       <<910, 911, 1, 63>>, <<913, 929, 1, 32>>, <<931, 939, 1, 32>>, <<975, 975, 1, 8>>,
       <<984, 1006, 2, 1>>, <<1012, 1012, 1, -60>>, <<1015, 1015, 1, 1>>, <<1017, 1017, 1, -7>>,
       <<1018, 1018, 1, 1>>, <<1021, 1023, 1, -130>>, <<1024, 1039, 1, 80>>, <<1040, 1071, 1, 32>>,
       <<1120, 1152, 2, 1>>, <<1162, 1214, 2, 1>>, <<1216, 1216, 1, 15>>, <<1217, 1229, 2, 1>>,
       <<1232, 1326, 2, 1>>, <<1329, 1366, 1, 48>>, <<4256, 4293, 1, 7264>>, <<4295, 4295, 1, 7264>>,
       <<4301, 4301, 1, 7264>>, <<5024, 5103, 1, 38864>>, <<5104, 5109, 1, 8>>, <<7312, 7354, 1, -3008>>,
       <<7357, 7359, 1, -3008>>, <<7680, 7828, 2, 1>>, <<7838, 7838, 1, -7615>>, <<7840, 7934, 2, 1>>,
       <<7944, 7951, 1, -8>>, <<7960, 7965, 1, -8>>, <<7976, 7983, 1, -8>>, <<7992, 7999, 1, -8>>,
       <<8008, 8013, 1, -8>>, <<8025, 8031, 2, -8>>, <<8040, 8047, 1, -8>>, <<8072, 8079, 1, -8>>,
       <<8088, 8095, 1, -8>>, <<8104, 8111, 1, -8>>, <<8120, 8121, 1, -8>>, <<8122, 8123, 1, -74>>,
       <<8124, 8124, 1, -9>>, <<8136, 8139, 1, -86>>, <<8140, 8140, 1, -9>>, <<8152, 8153, 1, -8>>,
       <<8154, 8155, 1, -100>>, <<8168, 8169, 1, -8>>, <<8170, 8171, 1, -112>>, <<8172, 8172, 1, -7>>,
       <<8184, 8185, 1, -128>>, <<8186, 8187, 1, -126>>, <<8188, 8188, 1, -9>>, <<8486, 8486, 1, -7517>>,
       <<8490, 8490, 1, -8383>>, <<8491, 8491, 1, -8262>>, <<8498, 8498, 1, 28>>, <<8544, 8559, 1, 16>>,
       <<8579, 8579, 1, 1>>, <<9398, 9423, 1, 26>>, <<11264, 11311, 1, 48>>, <<11360, 11360, 1, 1>>,
       <<11362, 11362, 1, -10743>>, <<11363, 11363, 1, -3814>>, <<11364, 11364, 1, -10727>>, <<11367, 11371, 2, 1>>,
       <<11373, 11373, 1, -10780>>, <<11374, 11374, 1, -10749>>, <<11375, 11375, 1, -10783>>, <<11376, 11376, 1, -10782>>,
       <<11378, 11378, 1, 1>>, <<11381, 11381, 1, 1>>, <<11390, 11391, 1, -10815>>, <<11392, 11490, 2, 1>>,
       <<11499, 11501, 2, 1>>, <<11506, 11506, 1, 1>>, <<42560, 42604, 2, 1>>, <<42624, 42650, 2, 1>>,
       <<42786, 42798, 2, 1>>, <<42802, 42862, 2, 1>>, <<42873, 42875, 2, 1>>, <<42877, 42877, 1, -35332>>,
       <<42878, 42886, 2, 1>>, <<42891, 42891, 1, 1>>, <<42893, 42893, 1, -42280>>, <<42896, 42898, 2, 1>>,
       <<42902, 42920, 2, 1>>, <<42922, 42922, 1, -42308>>, <<42923, 42923, 1, -42319>>, <<42924, 42924, 1, -42315>>,
       <<42925, 42925, 1, -42305>>, <<42926, 42926, 1, -42308>>, <<42928, 42928, 1, -42258>>, <<42929, 42929, 1, -42282>>,
       <<42930, 42930, 1, -42261>>, <<42931, 42931, 1, 928>>, <<42932, 42946, 2, 1>>, <<42948, 42948, 1, -48>>,
       <<42949, 42949, 1, -42307>>, <<42950, 42950, 1, -35384>>, <<42951, 42953, 2, 1>>, <<42960, 42960, 1, 1>>,
       <<42966, 42968, 2, 1>>, <<42997, 42997, 1, 1>>, <<65313, 65338, 1, 32>>, <<66560, 66599, 1, 40>>,
       <<66736, 66771, 1, 40>>, <<66928, 66938, 1, 39>>, <<66940, 66954, 1, 39>>, <<66956, 66962, 1, 39>>,
       <<66964, 66965, 1, 39>>, <<68736, 68786, 1, 64>>, <<71840, 71871, 1, 32>>, <<93760, 93791, 1, 32>>,
       <<125184, 125217, 1, 34>> >>

CaseIgnorableRanges ==
    << <<39, 39>>, <<46, 46>>, <<58, 58>>, <<94, 94>>, <<96, 96>>, <<168, 168>>,
       <<173, 173>>, <<175, 175>>, <<180, 180>>, <<183, 184>>, <<688, 879>>, <<884, 885>>,
       <<890, 890>>, <<900, 901>>, <<903, 903>>, <<1155, 1161>>, <<1369, 1369>>, <<1375, 1375>>,
       <<1425, 1469>>, <<1471, 1471>>, <<1473, 1474>>, <<1476, 1477>>, <<1479, 1479>>, <<1524, 1524>>,
       <<1536, 1541>>, <<1552, 1562>>, <<1564, 1564>>, <<1600, 1600>>, <<1611, 1631>>, <<1648, 1648>>,
       <<1750, 1757>>, <<1759, 1768>>, <<1770, 1773>>, <<1807, 1807>>, <<1809, 1809>>, <<1840, 1866>>,
       <<1958, 1968>>, <<2027, 2037>>, <<2042, 2042>>, <<2045, 2045>>, <<2070, 2093>>, <<2137, 2139>>,
       <<2184, 2184>>, <<2192, 2193>>, <<2200, 2207>>, <<2249, 2306>>, <<2362, 2362>>, <<2364, 2364>>,
       <<2369, 2376>>, <<2381, 2381>>, <<2385, 2391>>, <<2402, 2403>>, <<2417, 2417>>, <<2433, 2433>>,
       <<2492, 2492>>, <<2497, 2500>>, <<2509, 2509>>, <<2530, 2531>>, <<2558, 2558>>, <<2561, 2562>>,
       <<2620, 2620>>, <<2625, 2626>>, <<2631, 2632>>, <<2635, 2637>>, <<2641, 2641>>, <<2672, 2673>>,
       <<2677, 2677>>, <<2689, 2690>>, <<2748, 2748>>, <<2753, 2757>>, <<2759, 2760>>, <<2765, 2765>>,
       <<2786, 2787>>, <<2810, 2815>>, <<2817, 2817>>, <<2876, 2876>>, <<2879, 2879>>, <<2881, 2884>>,
       <<2893, 2893>>, <<2901, 2902>>, <<2914, 2915>>, <<2946, 2946>>, <<3008, 3008>>, <<3021, 3021>>,
       <<3072, 3072>>, <<3076, 3076>>, <<3132, 3132>>, <<3134, 3136>>, <<3142, 3144>>, <<3146, 3149>>,
       <<3157, 3158>>, <<3170, 3171>>, <<3201, 3201>>, <<3260, 3260>>, <<3263, 3263>>, <<3270, 3270>>,
       <<3276, 3277>>, <<3298, 3299>>, <<3328, 3329>>, <<3387, 3388>>, <<3393, 3396>>, <<3405, 3405>>,
       <<3426, 3427>>, <<3457, 3457>>, <<3530, 3530>>, <<3538, 3540>>, <<3542, 3542>>, <<3633, 3633>>,
       <<3636, 3642>>, <<3654, 3662>>, <<3761, 3761>>, <<3764, 3772>>, <<3782, 3782>>, <<3784, 3789>>,
       <<3864, 3865>>, <<3893, 3893>>, <<3895, 3895>>, <<3897, 3897>>, <<3953, 3966>>, <<3968, 3972>>,
       <<3974, 3975>>, <<3981, 3991>>, <<3993, 4028>>, <<4038, 4038>>, <<4141, 4144>>, <<4146, 4151>>,
       <<4153, 4154>>, <<4157, 4158>>, <<4184, 4185>>, <<4190, 4192>>, <<4209, 4212>>, <<4226, 4226>>,
       <<4229, 4230>>, <<4237, 4237>>, <<4253, 4253>>, <<4348, 4348>>, <<4957, 4959>>, <<5906, 5908>>,
       <<5938, 5939>>, <<5970, 5971>>, <<6002, 6003>>, <<6068, 6069>>, <<6071, 6077>>, <<6086, 6086>>,
       <<6089, 6099>>, <<6103, 6103>>, <<6109, 6109>>, <<6155, 6159>>, <<6211, 6211>>, <<6277, 6278>>,
       <<6313, 6313>>, <<6432, 6434>>, <<6439, 6440>>, <<6450, 6450>>, <<6457, 6459>>, <<6679, 6680>>,
       <<6683, 6683>>, <<6742, 6742>>, <<6744, 6750>>, <<6752, 6752>>, <<6754, 6754>>, <<6757, 6764>>,
       <<6771, 6780>>, <<6783, 6783>>, <<6823, 6823>>, <<6832, 6862>>, <<6912, 6915>>, <<6964, 6964>>,
       <<6966, 6970>>, <<6972, 6972>>, <<6978, 6978>>, <<7019, 7027>>, <<7040, 7041>>, <<7074, 7077>>,
       <<7080, 7081>>, <<7083, 7085>>, <<7142, 7142>>, <<7144, 7145>>, <<7149, 7149>>, <<7151, 7153>>,
       <<7212, 7219>>, <<7222, 7223>>, <<7288, 7293>>, <<7376, 7378>>, <<7380, 7392>>, <<7394, 7400>>,
       <<7405, 7405>>, <<7412, 7412>>, <<7416, 7417>>, <<7468, 7530>>, <<7544, 7544>>, <<7579, 7679>>,
       <<8125, 8125>>, <<8127, 8129>>, <<8141, 8143>>, <<8157, 8159>>, <<8173, 8175>>, <<8189, 8190>>,
       <<8203, 8207>>, <<8216, 8217>>, <<8228, 8228>>, <<8231, 8231>>, <<8234, 8238>>, <<8288, 8292>>,
       <<8294, 8303>>, <<8305, 8305>>, <<8319, 8319>>, <<8336, 8348>>, <<8400, 8432>>, <<11388, 11389>>,
       <<11503, 11505>>, <<11631, 11631>>, <<11647, 11647>>, <<11744, 11775>>, <<11823, 11823>>, <<12293, 12293>>,
       <<12330, 12333>>, <<12337, 12341>>, <<12347, 12347>>, <<12441, 12446>>, <<12540, 12542>>, <<40981, 40981>>,
       <<42232, 42237>>, <<42508, 42508>>, <<42607, 42610>>, <<42612, 42621>>, <<42623, 42623>>, <<42652, 42655>>,
       <<42736, 42737>>, <<42752, 42785>>, <<42864, 42864>>, <<42888, 42890>>, <<42994, 42996>>, <<43000, 43001>>,
       <<43010, 43010>>, <<43014, 43014>>, <<43019, 43019>>, <<43045, 43046>>, <<43052, 43052>>, <<43204, 43205>>,
       <<43232, 43249>>, <<43263, 43263>>, <<43302, 43309>>, <<43335, 43345>>, <<43392, 43394>>, <<43443, 43443>>,
       <<43446, 43449>>, <<43452, 43453>>, <<43471, 43471>>, <<43493, 43494>>, <<43561, 43566>>, <<43569, 43570>>,
       <<43573, 43574>>, <<43587, 43587>>, <<43596, 43596>>, <<43632, 43632>>, <<43644, 43644>>, <<43696, 43696>>,
       <<43698, 43700>>, <<43703, 43704>>, <<43710, 43711>>, <<43713, 43713>>, <<43741, 43741>>, <<43756, 43757>>,
       <<43763, 43764>>, <<43766, 43766>>, <<43867, 43871>>, <<43881, 43883>>, <<44005, 44005>>, <<44008, 44008>>,
       <<44013, 44013>>, <<64286, 64286>>, <<64434, 64450>>, <<65024, 65039>>, <<65043, 65043>>, <<65056, 65071>>,
       <<65106, 65106>>, <<65109, 65109>>, <<65279, 65279>>, <<65287, 65287>>, <<65294, 65294>>, <<65306, 65306>>,
       <<65342, 65342>>, <<65344, 65344>>, <<65392, 65392>>, <<65438, 65439>>, <<65507, 65507>>, <<65529, 65531>>,
       <<66045, 66045>>, <<66272, 66272>>, <<66422, 66426>>, <<67456, 67461>>, <<67463, 67504>>, <<67506, 67514>>,
       <<68097, 68099>>, <<68101, 68102>>, <<68108, 68111>>, <<68152, 68154>>, <<68159, 68159>>, <<68325, 68326>>,
       <<68900, 68903>>, <<69291, 69292>>, <<69446, 69456>>, <<69506, 69509>>, <<69633, 69633>>, <<69688, 69702>>,
       <<69744, 69744>>, <<69747, 69748>>, <<69759, 69761>>, <<69811, 69814>>, <<69817, 69818>>, <<69821, 69821>>,
       <<69826, 69826>>, <<69837, 69837>>, <<69888, 69890>>, <<69927, 69931>>, <<69933, 69940>>, <<70003, 70003>>,
       <<70016, 70017>>, <<70070, 70078>>, <<70089, 70092>>, <<70095, 70095>>, <<70191, 70193>>, <<70196, 70196>>,
       <<70198, 70199>>, <<70206, 70206>>, <<70367, 70367>>, <<70371, 70378>>, <<70400, 70401>>, <<70459, 70460>>,
       <<70464, 70464>>, <<70502, 70508>>, <<70512, 70516>>, <<70712, 70719>>, <<70722, 70724>>, <<70726, 70726>>,
       <<70750, 70750>>, <<70835, 70840>>, <<70842, 70842>>, <<70847, 70848>>, <<70850, 70851>>, <<71090, 71093>>,
       <<71100, 71101>>, <<71103, 71104>>, <<71132, 71133>>, <<71219, 71226>>, <<71229, 71229>>, <<71231, 71232>>,
       <<71339, 71339>>, <<71341, 71341>>, <<71344, 71349>>, <<71351, 71351>>, <<71453, 71455>>, <<71458, 71461>>,
       <<71463, 71467>>, <<71727, 71735>>, <<71737, 71738>>, <<71995, 71996>>, <<71998, 71998>>, <<72003, 72003>>,
       <<72148, 72151>>, <<72154, 72155>>, <<72160, 72160>>, <<72193, 72202>>, <<72243, 72248>>, <<72251, 72254>>,
       <<72263, 72263>>, <<72273, 72278>>, <<72281, 72283>>, <<72330, 72342>>, <<72344, 72345>>, <<72752, 72758>>,
       <<72760, 72765>>, <<72767, 72767>>, <<72850, 72871>>, <<72874, 72880>>, <<72882, 72883>>, <<72885, 72886>>,
       <<73009, 73014>>, <<73018, 73018>>, <<73020, 73021>>, <<73023, 73029>>, <<73031, 73031>>, <<73104, 73105>>,
       <<73109, 73109>>, <<73111, 73111>>, <<73459, 73460>>, <<78896, 78904>>, <<92912, 92916>>, <<92976, 92982>>,
       <<92992, 92995>>, <<94031, 94031>>, <<94095, 94111>>, <<94176, 94177>>, <<94179, 94180>>, <<110576, 110579>>,
       <<110581, 110587>>, <<110589, 110590>>, <<113821, 113822>>, <<113824, 113827>>, <<118528, 118573>>, <<118576, 118598>>,
       <<119143, 119145>>, <<119155, 119170>>, <<119173, 119179>>, <<119210, 119213>>, <<119362, 119364>>, <<121344, 121398>>,
       <<121403, 121452>>, <<121461, 121461>>, <<121476, 121476>>, <<121499, 121503>>, <<121505, 121519>>, <<122880, 122886>>,
       <<122888, 122904>>, <<122907, 122913>>, <<122915, 122916>>, <<122918, 122922>>, <<123184, 123197>>, <<123566, 123566>>,
       <<123628, 123631>>, <<125136, 125142>>, <<125252, 125259>>, <<127995, 127999>>, <<917505, 917505>>, <<917536, 917631>>,
       <<917760, 917999>> >>

CasedRanges ==
    << <<65, 90>>, <<97, 122>>, <<170, 170>>, <<181, 181>>, <<186, 186>>, <<192, 214>>,
       <<216, 246>>, <<248, 442>>, <<444, 447>>, <<452, 659>>, <<661, 687>>, <<880, 883>>,
       <<886, 887>>, <<891, 893>>, <<895, 895>>, <<902, 902>>, <<904, 906>>, <<908, 908>>,
       <<910, 929>>, <<931, 1013>>, <<1015, 1153>>, <<1162, 1327>>, <<1329, 1366>>, <<1376, 1416>>,
       <<4256, 4293>>, <<4295, 4295>>, <<4301, 4301>>, <<4304, 4346>>, <<4349, 4351>>, <<5024, 5109>>,
       <<5112, 5117>>, <<7296, 7304>>, <<7312, 7354>>, <<7357, 7359>>, <<7424, 7467>>, <<7531, 7543>>,
       <<7545, 7578>>, <<7680, 7957>>, <<7960, 7965>>, <<7968, 8005>>, <<8008, 8013>>, <<8016, 8023>>,
       <<8025, 8025>>, <<8027, 8027>>, <<8029, 8029>>, <<8031, 8061>>, <<8064, 8116>>, <<8118, 8124>>,
       <<8126, 8126>>, <<8130, 8132>>, <<8134, 8140>>, <<8144, 8147>>, <<8150, 8155>>, <<8160, 8172>>,
       <<8178, 8180>>, <<8182, 8188>>, <<8450, 8450>>, <<8455, 8455>>, <<8458, 8467>>, <<8469, 8469>>,
       <<8473, 8477>>, <<8484, 8484>>, <<8486, 8486>>, <<8488, 8488>>, <<8490, 8493>>, <<8495, 8500>>,
       <<8505, 8505>>, <<8508, 8511>>, <<8517, 8521>>, <<8526, 8526>>, <<8544, 8575>>, <<8579, 8580>>,
       <<9398, 9449>>, <<11264, 11387>>, <<11390, 11492>>, <<11499, 11502>>, <<11506, 11507>>, <<11520, 11557>>,
       <<11559, 11559>>, <<11565, 11565>>, <<42560, 42605>>, <<42624, 42651>>, <<42786, 42863>>, <<42865, 42887>>,
       <<42891, 42894>>, <<42896, 42954>>, <<42960, 42961>>, <<42963, 42963>>, <<42965, 42969>>, <<42997, 42998>>,
       <<43002, 43002>>, <<43824, 43866>>, <<43872, 43880>>, <<43888, 43967>>, <<64256, 64262>>, <<64275, 64279>>,
       <<65313, 65338>>, <<65345, 65370>>, <<66560, 66639>>, <<66736, 66771>>, <<66776, 66811>>, <<66928, 66938>>,
       <<66940, 66954>>, <<66956, 66962>>, <<66964, 66965>>, <<66967, 66977>>, <<66979, 66993>>, <<66995, 67001>>,
       <<67003, 67004>>, <<68736, 68786>>, <<68800, 68850>>, <<71840, 71903>>, <<93760, 93823>>, <<119808, 119892>>,
       <<119894, 119964>>, <<119966, 119967>>, <<119970, 119970>>, <<119973, 119974>>, <<119977, 119980>>, <<119982, 119993>>,
       <<119995, 119995>>, <<119997, 120003>>, <<120005, 120069>>, <<120071, 120074>>, <<120077, 120084>>, <<120086, 120092>>,
       <<120094, 120121>>, <<120123, 120126>>, <<120128, 120132>>, <<120134, 120134>>, <<120138, 120144>>, <<120146, 120485>>,
       <<120488, 120512>>, <<120514, 120538>>, <<120540, 120570>>, <<120572, 120596>>, <<120598, 120628>>, <<120630, 120654>>,
       <<120656, 120686>>, <<120688, 120712>>, <<120714, 120744>>, <<120746, 120770>>, <<120772, 120779>>, <<122624, 122633>>,
       <<122635, 122654>>, <<125184, 125251>>, <<127280, 127305>>, <<127312, 127337>>, <<127344, 127369>> >>

UpperAlphabet == Chars("ABCDEFGHIJKLMNOPQRSTUVWXYZ")
LowerAlphabet == Chars("abcdefghijklmnopqrstuvwxyz")

\* c.lower() for one character c, a text
LowerChar(c) ==
    IF Len(c) = 1
    THEN IF \E i \in 1..26 : UpperAlphabet[i] = c
         THEN <<LowerAlphabet[CHOOSE i \in 1..26 : UpperAlphabet[i] = c]>>
         ELSE <<c>>
    ELSE LET cp == CodePoint(c)
             k == FindRange(LowerRuns, cp, 1, Len(LowerRuns))
         IN  IF cp = 304 THEN <<"i", "U+0307">>
             ELSE IF k = 0 THEN <<c>>
             ELSE IF (cp - LowerRuns[k][1]) % LowerRuns[k][3] # 0 THEN <<c>>
             ELSE <<CharOf(cp + LowerRuns[k][4])>>

IsCaseIgnorable(c) ==
    FindRange(CaseIgnorableRanges, CodePoint(c), 1, Len(CaseIgnorableRanges)) # 0

\* cased and not case-ignorable
IsCased(c) == FindRange(CasedRanges, CodePoint(c), 1, Len(CasedRanges)) # 0

\* s[i] is in the Final_Sigma context
FinalSigma(s, i) ==
    /\ \E j \in 1..(i - 1) :
          /\ IsCased(s[j])
          /\ \A m \in (j + 1)..(i - 1) : IsCaseIgnorable(s[m])
    /\ \A k \in (i + 1)..Len(s) :
          (\A m \in (i + 1)..(k - 1) : IsCaseIgnorable(s[m])) => ~IsCased(s[k])

\* str.lower()
lower(s) ==
    Join([i \in 1..Len(s) |->
            IF s[i] = "U+03A3"
            THEN (IF FinalSigma(s, i) THEN <<"U+03C2">> ELSE <<"U+03C3">>)
            ELSE LowerChar(s[i])], <<>>)

\* the characters str.splitlines() breaks a text at
IsLineBreak(c) ==
    \/ c \in {"\n", "\r", "\f"}
    \/ Len(c) > 1 /\ CodePoint(c) \in {10, 11, 12, 13, 28, 29, 30, 133, 8232, 8233}

\* index of the first line break of text, 0 when absent
FirstLineBreak(text) ==
    IF \E i \in 1..Len(text) : IsLineBreak(text[i])
    THEN CHOOSE i \in 1..Len(text) :
            IsLineBreak(text[i]) /\ \A j \in 1..(i - 1) : ~IsLineBreak(text[j])
    ELSE 0

\* str.splitlines(): "\r\n" is one line break
RECURSIVE splitlines(_)
splitlines(text) ==
    IF text = <<>> THEN <<>>
    ELSE LET k == FirstLineBreak(text)
             crlf == k > 0 /\ k < Len(text) /\ CodePoint(text[k]) = 13
                     /\ CodePoint(text[k + 1]) = 10
         IN  IF k = 0 THEN <<text>>
             ELSE <<SubSeq(text, 1, k - 1)>>
                  \o splitlines(SubSeq(text, k + (IF crlf THEN 2 ELSE 1), Len(text)))

(***************************************************************************)
(* JSON values as json.loads returns them.  Every value has the same       *)
(* record shape: t is the Python type, n the number (the value of an int,  *)
(* ten times the value of a float, the truth value of a bool, the number   *)
(* of elements of a list or dict), s the characters of a str.  A key that  *)
(* is absent from the object reads as None.                                *)
(***************************************************************************)
JNull == [t |-> "null", n |-> 0, s |-> <<>>]
JNum(k) == [t |-> "num", n |-> k, s |-> <<>>]
\* a JSON number written with a fraction or an exponent, which json.loads
\* returns as a float: tenths is ten times its value
JFloat(tenths) == [t |-> "float", n |-> tenths, s |-> <<>>]
JBool(b) == [t |-> "bool", n |-> IF b THEN 1 ELSE 0, s |-> <<>>]
JStr(str) == [t |-> "str", n |-> 0, s |-> str]
JList(k) == [t |-> "list", n |-> k, s |-> <<>>]
JDict(k) == [t |-> "dict", n |-> k, s |-> <<>>]

\* bool(v)
Truthy(v) ==
    CASE v.t = "null" -> FALSE
      [] v.t = "str" -> v.s # <<>>
      [] OTHER -> v.n # 0

\* v in (1, "1", True): Python compares with ==, and True == 1 == 1.0
IsSuccessRet(v) ==
    \/ v.t \in {"num", "bool"} /\ v.n = 1
    \/ v.t = "float" /\ v.n = 10
    \/ v.t = "str" /\ v.s = <<"1">>

\* the type name Python prints for a value
PyTypeName(v) ==
    CASE v.t = "num" -> "int"
      [] v.t = "null" -> "NoneType"
      [] OTHER -> v.t

(***************************************************************************)
(* Helpers of src/main.py.                                                 *)
(***************************************************************************)
\* mask_email raises IndexError at name[0] when the part before "@" is empty
mask_email_raises(email) ==
    LET s == strip(email) IN Contains(s, <<"@">>) /\ IndexOf(s, "@") = 1

mask_email(email) ==
    LET s == strip(email)
        k == IndexOf(s, "@")
        name == SubSeq(s, 1, k - 1)
        dom == SubSeq(s, k + 1, Len(s))
        name_mask == IF Len(name) <= 2
                     THEN <<name[1], "*">>
                     ELSE <<name[1]>> \o Rep("*", Len(name) - 2) \o <<name[Len(name)]>>
    IN  IF k > 0 THEN name_mask \o <<"@">> \o dom
        ELSE IF Len(s) <= 2 THEN Prefix(s, 1) \o <<"*">>
        ELSE Prefix(s, 1) \o Rep("*", Len(s) - 2) \o SubSeq(s, Len(s), Len(s))

\* the redundancy keywords of is_already_checked_in, each character by its
\* code point
keywords ==
    << <<"U+5DF2", "U+7ECF">>, <<"U+5DF2">>, <<"U+7B7E", "U+5230", "U+8FC7">>,
       <<"U+4ECA", "U+65E5">>, <<"U+4ECA", "U+5929">>,
       <<"U+4F3C", "U+4E4E", "U+5DF2", "U+7ECF">>, <<"U+91CD", "U+590D">>,
       <<"U+9886", "U+53D6", "U+8FC7">> >>

\* is_already_checked_in without the lower() of the "check" test
is_already_checked_in_case_sensitive(msg) ==
    LET m == strip(msg) IN
    IF m = <<>> THEN FALSE
    ELSE /\ Contains(m, <<"U+7B7E", "U+5230">>) \/ Contains(m, Chars("check"))
         /\ \E i \in 1..Len(keywords) : Contains(m, keywords[i])

is_already_checked_in(msg) ==
    LET m == strip(msg) IN
    IF m = <<>> THEN FALSE
    ELSE /\ Contains(m, <<"U+7B7E", "U+5230">>) \/ Contains(lower(m), Chars("check"))
         /\ \E i \in 1..Len(keywords) : Contains(m, keywords[i])

\* the stripped lines of CONFIG that are neither blank nor comments
config_lines(config_text) ==
    LET raw == splitlines(config_text)
        stripped == [i \in 1..Len(raw) |-> strip(raw[i])]
    IN  SelectSeq(stripped, LAMBDA ln : ln # <<>> /\ ln[1] # "#")

\* the two fields of a line of the comma format: ln.split(",", 1), stripped
comma_email(ln) == strip(SubSeq(ln, 1, IndexOf(ln, ",") - 1))
comma_pwd(ln) == strip(SubSeq(ln, IndexOf(ln, ",") + 1, Len(ln)))

\* a parser that only refuses a configuration without accounts
parse_accounts_raises_empty(config_text) == config_lines(config_text) = <<>>

\* parse_accounts raises ValueError
parse_accounts_raises(config_text) ==
    LET lines == config_lines(config_text) IN
    \/ lines = <<>>
    \/ /\ \E i \in 1..Len(lines) : Contains(lines[i], <<",">>)
       /\ \E i \in 1..Len(lines) :
            \/ ~Contains(lines[i], <<",">>)
            \/ comma_email(lines[i]) = <<>>
            \/ comma_pwd(lines[i]) = <<>>
    \/ /\ \A i \in 1..Len(lines) : ~Contains(lines[i], <<",">>)
       /\ \/ Len(lines) % 2 # 0
          \/ \E i \in 1..Len(lines) : strip(lines[i]) = <<>>

\* the accounts parse_accounts returns when it does not raise
parse_accounts(config_text) ==
    LET lines == config_lines(config_text) IN
    IF \E i \in 1..Len(lines) : Contains(lines[i], <<",">>)
    THEN [i \in 1..Len(lines) |->
            [email |-> comma_email(lines[i]), pwd |-> comma_pwd(lines[i])]]
    ELSE [i \in 1..(Len(lines) \div 2) |->
            [email |-> strip(lines[2 * i - 1]), pwd |-> strip(lines[2 * i])]]

(***************************************************************************)
(* CheckinResult and the outcomes of sign_one.  reason holds whatever      *)
(* Python value the code stored there, so it is a JSON value.              *)
(***************************************************************************)
CheckinResult(masked, login_ok, checkin_ok, checkin_executed, already_checked, reason) ==
    [email_masked |-> masked, login_ok |-> login_ok, checkin_ok |-> checkin_ok,
     checkin_executed |-> checkin_executed, already_checked |-> already_checked,
     reason |-> reason]

\* sign_one, "if not URL"
UrlMissingReason ==
    Chars("URL ") \o <<"U+672A", "U+914D", "U+7F6E", "U+FF08">> \o Chars("Secrets ")
    \o <<"U+91CC", "U+8BBE", "U+7F6E">> \o Chars(" URL") \o <<"U+FF09">>

UrlMissingResult(masked) ==
    CheckinResult(masked, FALSE, FALSE, FALSE, FALSE, JStr(UrlMissingReason))

\* the except clause recording the check-in as executed
ExceptionResult_executed(masked, ex_repr) ==
    CheckinResult(masked, FALSE, FALSE, TRUE, FALSE, JStr(ex_repr))

\* sign_one, "except Exception as ex": ex_repr is repr(ex)
ExceptionResult(masked, ex_repr) ==
    CheckinResult(masked, FALSE, FALSE, FALSE, FALSE, JStr(ex_repr))

(***************************************************************************)
(* What the remote endpoint answers to one request: the request raises     *)
(* (kind "raise", exc is repr of the exception), or it returns a body      *)
(* (kind "body") with its raw text and what parse_json_maybe makes of the  *)
(* stripped text: parsed is "none" when json.loads raises, "other" for a   *)
(* JSON value that is not an object, "dict" for an object, whose "ret" and *)
(* "msg" members are ret and msg.                                          *)
(***************************************************************************)
Raise(exc) ==
    [kind |-> "raise", exc |-> exc, text |-> <<>>, parsed |-> "none",
     ret |-> JNull, msg |-> JNull]

Body(text, parsed, ret, msg) ==
    [kind |-> "body", exc |-> <<>>, text |-> text, parsed |-> parsed,
     ret |-> ret, msg |-> msg]

\* isinstance(j, dict)
IsDict(res) == res.parsed = "dict"

\* (j.get("msg") or "").strip() raises AttributeError on a truthy non-string
msg_strip_raises(res) == Truthy(res.msg) /\ res.msg.t # "str"

\* repr of that AttributeError
StripErrorRepr(v) ==
    Chars("AttributeError(\"'") \o Chars(PyTypeName(v))
    \o Chars("' object has no attribute 'strip'\")")

\* (j.get("msg") or "").strip()
msg_strip(res) == strip(IF Truthy(res.msg) THEN res.msg.s ELSE <<>>)

\* the login test with the truth value of "ret" in place of the sentinel test
login_passes_truthy(res) ==
    res.kind = "body" /\ IsDict(res) /\ Truthy(res.ret)

\* sign_one, the login step: the login response lets the flow go on
login_passes(res) ==
    res.kind = "body" /\ IsDict(res) /\ IsSuccessRet(res.ret)

\* sign_one, the result returned at the login step when the flow stops there
login_result(masked, res) ==
    IF res.kind = "raise" THEN ExceptionResult(masked, res.exc)
    ELSE CheckinResult(masked, FALSE, FALSE, FALSE, FALSE,
            IF IsDict(res) /\ Truthy(res.msg) THEN res.msg
            ELSE JStr(Prefix(strip(res.text), 300)))

\* a check-in step that looks for the keywords in a body that is not JSON
checkin_result_raw_keywords(masked, res) ==
    IF res.kind = "raise" THEN ExceptionResult(masked, res.exc)
    ELSE IF ~IsDict(res)
    THEN IF is_already_checked_in(strip(res.text))
         THEN CheckinResult(masked, TRUE, TRUE, TRUE, TRUE, JStr(Prefix(strip(res.text), 300)))
         ELSE CheckinResult(masked, TRUE, FALSE, TRUE, FALSE, JStr(Prefix(strip(res.text), 300)))
    ELSE IF IsSuccessRet(res.ret)
    THEN IF msg_strip_raises(res) THEN ExceptionResult(masked, StripErrorRepr(res.msg))
         ELSE CheckinResult(masked, TRUE, TRUE, TRUE, FALSE, JStr(msg_strip(res)))
    ELSE IF msg_strip_raises(res) THEN ExceptionResult(masked, StripErrorRepr(res.msg))
    ELSE IF is_already_checked_in(msg_strip(res))
    THEN CheckinResult(masked, TRUE, TRUE, TRUE, TRUE, JStr(msg_strip(res)))
    ELSE CheckinResult(masked, TRUE, FALSE, TRUE, FALSE, JStr(msg_strip(res)))

\* sign_one, the result returned at the check-in step
checkin_result(masked, res) ==
    IF res.kind = "raise" THEN ExceptionResult(masked, res.exc)
    ELSE IF ~IsDict(res)
    THEN CheckinResult(masked, TRUE, FALSE, TRUE, FALSE, JStr(Prefix(strip(res.text), 300)))
    ELSE IF IsSuccessRet(res.ret)
    THEN IF msg_strip_raises(res) THEN ExceptionResult(masked, StripErrorRepr(res.msg))
         ELSE CheckinResult(masked, TRUE, TRUE, TRUE, FALSE, JStr(msg_strip(res)))
    ELSE IF msg_strip_raises(res) THEN ExceptionResult(masked, StripErrorRepr(res.msg))
    ELSE IF is_already_checked_in(msg_strip(res))
    THEN CheckinResult(masked, TRUE, TRUE, TRUE, TRUE, JStr(msg_strip(res)))
    ELSE CheckinResult(masked, TRUE, FALSE, TRUE, FALSE, JStr(msg_strip(res)))

(***************************************************************************)
(* The answers the remote endpoint is drawn from.                           *)
(***************************************************************************)
L_ok ==
    Body(Chars("{\"ret\":1,\"msg\":\"ok\"}"),
         "dict", JNum(1), JStr(Chars("ok")))

L_okStr ==
    Body(Chars("{\"ret\":\"1\"}"),
         "dict", JStr(Chars("1")), JNull)

L_okTrue ==
    Body(Chars("{\"ret\":true,\"msg\":\"\"}"),
         "dict", JBool(TRUE), JStr(<<>>))

L_bad ==
    Body(Chars("{\"ret\":0,\"msg\":\"invalid credentials\"}"),
         "dict", JNum(0), JStr(Chars("invalid credentials")))

L_surrogate ==
    Body(Chars("{\"ret\":0,\"msg\":\"") \o <<"\\">> \o Chars("ud800\"}"),
         "dict", JNum(0), JStr(<<"U+D800">>))

L_escapedByte ==
    Body(Chars("{\"ret\":0,\"msg\":\"") \o <<"\\">> \o Chars("udc80\"}"),
         "dict", JNum(0), JStr(<<"U+DC80">>))

L_noMsg ==
    Body(Chars("{\"ret\":\"0\"}"),
         "dict", JStr(Chars("0")), JNull)

L_noRet ==
    Body(Chars("{\"msg\":\" a<b \"}"),
         "dict", JNull, JStr(Chars(" a<b ")))

L_msgNum ==
    Body(Chars("{\"ret\":0,\"msg\":5}"),
         "dict", JNum(0), JNum(5))

L_msgList ==
    Body(Chars("{\"ret\":0,\"msg\":[\"x\"]}"),
         "dict", JNum(0), JList(1))

L_html ==
    Body(Chars(" <html>502 & more</html>\n"),
         "none", JNull, JNull)

L_array ==
    Body(Chars("[1]"),
         "other", JNull, JNull)

K_ok ==
    Body(Chars("{\"ret\":1,\"msg\":\"check-in successful\"}"),
         "dict", JNum(1), JStr(Chars("check-in successful")))

K_okRedundant ==
    Body(Chars("{\"ret\":\"1\",\"msg\":\"") \o <<"U+4ECA", "U+65E5", "U+5DF2", "U+7B7E", "U+5230">> \o Chars("\"}"),
         "dict", JStr(Chars("1")), JStr(<<"U+4ECA", "U+65E5", "U+5DF2", "U+7B7E", "U+5230">>))

K_okNoMsg ==
    Body(Chars("{\"ret\":true}"),
         "dict", JBool(TRUE), JNull)

K_okMsgNum ==
    Body(Chars("{\"ret\":1,\"msg\":5}"),
         "dict", JNum(1), JNum(5))

K_okFloat ==
    Body(Chars("{\"ret\":1.0,\"msg\":1.5}"),
         "dict", JFloat(10), JFloat(15))

K_okMsgZero ==
    Body(Chars("{\"ret\":1,\"msg\":0}"),
         "dict", JNum(1), JNum(0))

K_redundant ==
    Body(Chars("{\"ret\":0,\"msg\":\"") \o <<"U+60A8", "U+4F3C", "U+4E4E", "U+5DF2", "U+7ECF", "U+7B7E", "U+5230", "U+8FC7", "U+4E86">> \o Chars("\"}"),
         "dict", JNum(0), JStr(<<"U+60A8", "U+4F3C", "U+4E4E", "U+5DF2", "U+7ECF", "U+7B7E", "U+5230", "U+8FC7", "U+4E86">>))

K_redundantMixed ==
    Body(Chars("{\"ret\":0,\"msg\":\"") \o <<"U+3000">> \o Chars("CHECKIN ") \o <<"U+91CD", "U+590D", "U+00A0">> \o Chars("\"}"),
         "dict", JNum(0),
         JStr(<<"U+3000">> \o Chars("CHECKIN ") \o <<"U+91CD", "U+590D", "U+00A0">>))

K_alreadyEnglish ==
    Body(Chars("{\"ret\":0,\"msg\":\"already checked in today\"}"),
         "dict", JNum(0), JStr(Chars("already checked in today")))

K_redundancyOnly ==
    Body(Chars("{\"ret\":0,\"msg\":\"") \o <<"U+5DF2", "U+9886", "U+53D6">> \o Chars("\"}"),
         "dict", JNum(0), JStr(<<"U+5DF2", "U+9886", "U+53D6">>))

K_failNoMsg ==
    Body(Chars("{\"ret\":0}"),
         "dict", JNum(0), JNull)

K_failMsgList ==
    Body(Chars("{\"ret\":2,\"msg\":[\"x\"]}"),
         "dict", JNum(2), JList(1))

K_html ==
    Body(Chars("<p>") \o <<"U+4ECA", "U+65E5", "U+5DF2", "U+7B7E", "U+5230">> \o Chars("</p>"),
         "none", JNull, JNull)

K_array ==
    Body(Chars("[\"") \o <<"U+4ECA", "U+65E5", "U+5DF2", "U+7B7E", "U+5230">> \o Chars("\"]"),
         "other", JNull, JNull)

TimeoutRepr == Chars("ReadTimeout('timed out')")

LoginResponses ==
    { L_ok, L_okStr, L_okTrue, L_bad, L_noMsg, L_noRet, L_msgNum, L_msgList,
      L_surrogate, L_escapedByte, L_html, L_array, Raise(TimeoutRepr) }

CheckinResponses ==
    { K_ok, K_okRedundant, K_okNoMsg, K_okMsgNum, K_okFloat, K_okMsgZero, K_redundant,
      K_redundantMixed, K_alreadyEnglish, K_redundancyOnly, K_failNoMsg,
      K_failMsgList, K_html, K_array, Raise(TimeoutRepr) }

(***************************************************************************)
(* The reporter: html_escape, format_card_html, format_summary_html.       *)
(***************************************************************************)
EscapeChar(c) ==
    CASE c = "&" -> Chars("&amp;")
      [] c = "<" -> Chars("&lt;")
      [] c = ">" -> Chars("&gt;")
      [] OTHER -> <<c>>

\* html.escape(s, quote=False) of a str
RECURSIVE escape(_)
escape(s) ==
    IF s = <<>> THEN <<>>
    ELSE IF Len(s) = 1 THEN EscapeChar(s[1])
    ELSE LET h == Len(s) \div 2
         IN  escape(SubSeq(s, 1, h)) \o escape(SubSeq(s, h + 1, Len(s)))

\* html_escape(v) raises AttributeError: html.escape of a truthy non-string
html_escape_raises(v) == Truthy(v) /\ v.t # "str"

\* html_escape(v): html.escape(v or "", quote=False)
html_escape(v) == IF Truthy(v) THEN escape(v.s) ELSE <<>>

\* now_cn_str(): one reading of the clock, "%Y-%m-%d %H:%M:%S" + " (UTC+8)"
now_cn_str == Chars("2026-10-30 08:00:00 (UTC+8)")

\* str(n) for n >= 0
RECURSIVE IntToChars(_)
IntToChars(n) ==
    IF n < 10 THEN <<Chars("0123456789")[n + 1]>>
    ELSE IntToChars(n \div 10) \o <<Chars("0123456789")[(n % 10) + 1]>>

\* sys.stdout.errors, the error handler of the stream print writes to: Python
\* sets it from the locale and PYTHONIOENCODING, the program never does.
\* "replace" stands for every handler that never raises (replace, ignore,
\* backslashreplace, xmlcharrefreplace, namereplace)
VARIABLE stdout_errors

StdoutErrors == {"strict", "surrogateescape", "replace"}

\* a code point of U+D800..U+DFFF, which UTF-8 does not encode
IsSurrogate(c) == Len(c) > 1 /\ CodePoint(c) \in 55296..57343

\* the encoding of the stream has a byte sequence for the character c
InRepertoire(c) ==
    IF StdoutEncoding = "utf-8" THEN ~IsSurrogate(c) ELSE CodePoint(c) < 128

\* str.encode(StdoutEncoding, stdout_errors) raises UnicodeEncodeError on
\* text: "surrogateescape" writes U+DC80..U+DCFF as the bytes 0x80..0xFF
encode_raises(text) ==
    /\ stdout_errors # "replace"
    /\ \E i \in 1..Len(text) :
          /\ ~InRepertoire(text[i])
          /\ stdout_errors = "surrogateescape" => CodePoint(text[i]) \notin 56448..56575

\* main's print of the status line raises: r.reason[:120] on a truthy value
\* that cannot be sliced (TypeError), or a line the stream cannot encode
\* (UnicodeEncodeError); a list is printed by its repr, which is ASCII-safe
print_raises(r) ==
    \/ Truthy(r.reason) /\ r.reason.t \notin {"str", "list"}
    \/ encode_raises(r.email_masked)
    \/ r.reason.t = "str" /\ encode_raises(Prefix(r.reason.s, 120))

\* format_card_html(r) raises: it escapes r.reason whenever it shows it
format_card_raises(r) ==
    /\ ~r.login_ok \/ ~r.checkin_ok \/ r.already_checked
    /\ html_escape_raises(r.reason)

format_card_html(r) ==
    LET overall_ok == r.login_ok /\ r.checkin_ok
        nl == <<"\n">>
        head == (IF overall_ok THEN <<"U+1F7E9">> ELSE <<"U+1F7E5">>) \o Chars(" <b></b>")
        rule == Rep("U+2500", 12)
        account == <<"U+1F464">> \o Chars(" <b>") \o <<"U+8D26", "U+53F7">>
                   \o Chars("</b>") \o <<"U+FF1A">> \o escape(r.email_masked)
        login == <<"U+1F510">> \o Chars(" <b>") \o <<"U+767B", "U+5F55">>
                 \o Chars("</b>") \o <<"U+FF1A">>
                 \o (IF r.login_ok THEN <<"U+2705", " ", "U+6210", "U+529F">>
                                   ELSE <<"U+274C", " ", "U+5931", "U+8D25">>)
        checkin == <<"U+1F4DD">> \o Chars(" <b>") \o <<"U+7B7E", "U+5230">>
                   \o Chars("</b>") \o <<"U+FF1A">>
        not_executed == checkin \o <<"U+23F8", " ", "U+672A", "U+6267", "U+884C">>
        checkin_ok == checkin \o <<"U+2705", " ", "U+6210", "U+529F">>
        checkin_already == checkin_ok \o
                   <<"U+FF08", "U+5DF2", "U+7B7E", "U+5230", "U+8FC7", "U+FF09">>
        checkin_fail == checkin \o <<"U+274C", " ", "U+5931", "U+8D25">>
        reason == <<"U+1F4CC">> \o Chars(" <b>") \o <<"U+539F", "U+56E0">>
                  \o Chars("</b>") \o <<"U+FF1A">> \o html_escape(r.reason)
        note == <<"U+1F5D2", "U+FE0F">> \o Chars(" <b>") \o <<"U+5907", "U+6CE8">>
                \o Chars("</b>") \o <<"U+FF1A">> \o html_escape(r.reason)
        time == <<"U+1F552">> \o Chars(" <b>")
                \o <<"U+7B7E", "U+5230", "U+65F6", "U+95F4">>
                \o Chars("</b>") \o <<"U+FF1A">> \o escape(now_cn_str)
        lines == <<head, rule, account, login>> \o
                 (IF ~r.login_ok
                  THEN <<not_executed>> \o (IF Truthy(r.reason) THEN <<reason>> ELSE <<>>)
                  ELSE IF r.checkin_ok
                  THEN IF r.already_checked
                       THEN <<checkin_already>> \o (IF Truthy(r.reason) THEN <<note>> ELSE <<>>)
                       ELSE <<checkin_ok>>
                  ELSE <<checkin_fail>> \o (IF Truthy(r.reason) THEN <<reason>> ELSE <<>>))
                 \o <<time>>
    IN  Join(lines, nl)

\* the hard-fail test of main and of format_summary_html
is_hard_fail(x) ==
    ~x.login_ok \/ (x.login_ok /\ x.checkin_executed /\ ~x.checkin_ok)

\* [x for x in results if <hard fail>]
hard_fail_of(rs) == SelectSeq(rs, is_hard_fail)

\* the three variables GitHub Actions sets, stripped: a record with the
\* fields server, repository and run_id, each empty when unset
VARIABLE GITHUB_RUN

\* format_summary_html, lines 297-299: the URL of the run, empty when one of
\* the three variables is empty
github_run_url ==
    IF GITHUB_RUN.server # <<>> /\ GITHUB_RUN.repository # <<>> /\ GITHUB_RUN.run_id # <<>>
    THEN GITHUB_RUN.server \o <<"/">> \o GITHUB_RUN.repository
         \o Chars("/actions/runs/") \o GITHUB_RUN.run_id
    ELSE <<>>

\* format_summary_html, line 288: its own copy of the list main computes
summary_hard_fail(rs) == SelectSeq(rs, is_hard_fail)

format_summary_html(rs) ==
    LET hard_fail == summary_hard_fail(rs)
        ok_count == Len(rs) - Len(hard_fail)
        total == Len(rs)
        overall_ok == Len(hard_fail) = 0
        head_icon == IF overall_ok THEN <<"U+1F7E9">> ELSE <<"U+1F7E5">>
        status == IF overall_ok THEN <<"U+5168", "U+90E8", "U+6210", "U+529F">>
                  ELSE <<"U+5931", "U+8D25", " ">> \o IntToChars(Len(hard_fail))
                       \o <<"/">> \o IntToChars(total)
        link == IF github_run_url # <<>>
                THEN <<"\n", "U+1F517">> \o Chars(" <a href=\"") \o escape(github_run_url)
                     \o Chars("\">")
                     \o <<"U+67E5", "U+770B", "U+8FD0", "U+884C", "U+8BE6", "U+60C5">>
                     \o Chars("</a>")
                ELSE <<>>
    IN  head_icon \o Chars(" <b></b>") \o <<"\n", "U+2705", " ", "U+6210", "U+529F", "U+FF1A">>
        \o IntToChars(ok_count) \o <<"/">> \o IntToChars(total)
        \o <<" ", " ", "U+00B7", " ", " ">>
        \o (IF overall_ok THEN <<"U+2705", " ">> ELSE <<"U+274C", " ">>) \o status
        \o link

\* main: the blocks of the payload for the outcomes shown
payload_blocks(rs, shown) ==
    <<format_summary_html(rs)>> \o [i \in 1..Len(shown) |-> format_card_html(shown[i])]

(***************************************************************************)
(* Notification delivery: the chunks tg_send_html_chunked hands to         *)
(* tg_send_html, in order.                                                 *)
(***************************************************************************)
max_len == 3800

TgAttempts == 3

\* index of the first "\n\n" in s, 0 when absent
IndexOfBlank(s) ==
    IF \E i \in 1..(Len(s) - 1) : s[i] = "\n" /\ s[i + 1] = "\n"
    THEN CHOOSE i \in 1..(Len(s) - 1) :
            /\ s[i] = "\n" /\ s[i + 1] = "\n"
            /\ \A j \in 1..(i - 1) : ~(s[j] = "\n" /\ s[j + 1] = "\n")
    ELSE 0

\* s.split("\n\n")
RECURSIVE split_blank(_)
split_blank(s) ==
    LET k == IndexOfBlank(s) IN
    IF k = 0 THEN <<s>>
    ELSE <<SubSeq(s, 1, k - 1)>> \o split_blank(SubSeq(s, k + 2, Len(s)))

\* [p[i:i + max_len] for i in range(0, len(p), max_len)]
RECURSIVE hard_cut(_)
hard_cut(p) ==
    IF p = <<>> THEN <<>>
    ELSE <<Prefix(p, max_len)>> \o hard_cut(SubSeq(p, max_len + 1, Len(p)))

\* the for loop of tg_send_html_chunked over the remaining parts, and the
\* final "if buf"
RECURSIVE chunk_parts(_, _)
chunk_parts(parts, buf) ==
    IF parts = <<>> THEN (IF buf # <<>> THEN <<buf>> ELSE <<>>)
    ELSE LET p == Head(parts)
             candidate == IF buf # <<>> THEN buf \o <<"\n", "\n">> \o p ELSE p
         IN  IF Len(candidate) <= max_len THEN chunk_parts(Tail(parts), candidate)
             ELSE (IF buf # <<>> THEN <<buf>> ELSE <<>>) \o
                  (IF Len(p) > max_len
                   THEN hard_cut(p) \o chunk_parts(Tail(parts), <<>>)
                   ELSE chunk_parts(Tail(parts), p))

tg_send_html_chunked(full_html) ==
    IF Len(full_html) <= max_len THEN <<full_html>>
    ELSE chunk_parts(split_blank(full_html), <<>>)

(***************************************************************************)
(* The run: main.                                                          *)
(***************************************************************************)
VARIABLES
    CONFIG,             \* the text of the CONFIG variable
    URL_set,            \* URL is not empty
    NOTIFY_ON_SUCCESS,
    TG_configured,      \* TG_BOT_TOKEN and TG_CHAT_ID are both set
    DEBUG,
    pc,                 \* where main is
    accounts,           \* main: accounts
    idx,                \* the account the for loop is at, from 1
    masked,             \* sign_one: masked
    session,            \* sign_one: s, the number of the Session object
    nsess,              \* Session objects created so far
    results,            \* main: results
    log,                \* every HTTP request issued so far, in order
    last_res,           \* sign_one: res or res2, the answer to the latest request
    blocks,             \* main: blocks
    chunks,             \* the texts tg_send_html is called with, in order
    chunk_i,            \* the chunk tg_send_html is sending
    attempt,            \* tg_send_html: iterations of the retry loop done
    delivered,          \* calls of tg_send_html_chunked so far
    exit_code,          \* exit status of the process, -1 while it runs
    raised_in           \* the function an uncaught exception escaped from, or "none"

vars ==
    << stdout_errors, GITHUB_RUN, CONFIG, URL_set, NOTIFY_ON_SUCCESS, TG_configured,
       DEBUG, pc, accounts, idx, masked, session, nsess, results, log, last_res,
       blocks, chunks, chunk_i,
       attempt, delivered, exit_code, raised_in >>

env ==
    << stdout_errors, GITHUB_RUN, CONFIG, URL_set, NOTIFY_ON_SUCCESS, TG_configured,
       DEBUG >>

\* the values of GITHUB_SERVER_URL, GITHUB_REPOSITORY and GITHUB_RUN_ID: a
\* run outside GitHub Actions, a run of GitHub Actions
GithubRuns ==
    { [server |-> <<>>, repository |-> <<>>, run_id |-> <<>>],
      [server |-> Chars("https://github.com"), repository |-> Chars("o/r"),
       run_id |-> Chars("7")] }

\* the texts CONFIG is drawn from
AllConfigs ==
    { Chars("a@x.io,p"),
      Chars("@x.io,q"),
      Chars("# two lines per account\n cy \n\npw\n"),
      Chars("a@x.io,p\nbob@x.io , q"),
      Chars("a@x.io,p\n@x.io,q"),
      Chars("ab@x.io,p\nab@x.io,p"),
      Chars("a@x.io,p\nbob@x.io,q\ncy,r"),
      Chars("a@x.io,p\n@x.io,q\ncy,r"),
      Chars(""),
      Chars("# only a comment\n\n"),
      Chars("a@x.io,p\nbob@x.io"),
      Chars("a@x.io,p\nbob@x.io,"),
      Chars("a@x.io,p\n,q"),
      Chars("a@x.io\np\nbob@x.io") }

Configs ==
    { c \in AllConfigs :
        parse_accounts_raises(c) \/ Len(parse_accounts(c)) <= MaxAccounts }

Init ==
    /\ stdout_errors \in StdoutErrors
    /\ GITHUB_RUN \in GithubRuns
    /\ CONFIG \in Configs
    /\ URL_set \in BOOLEAN
    /\ NOTIFY_ON_SUCCESS \in BOOLEAN
    /\ TG_configured \in BOOLEAN
    /\ DEBUG \in BOOLEAN
    /\ pc = "start"
    /\ accounts = <<>>
    /\ idx = 0
    /\ masked = <<>>
    /\ session = 0
    /\ nsess = 0
    /\ results = <<>>
    /\ log = <<>>
    /\ last_res = Raise(<<>>)
    /\ blocks = <<>>
    /\ chunks = <<>>
    /\ chunk_i = 0
    /\ attempt = 0
    /\ delivered = 0
    /\ exit_code = -1
    /\ raised_in = "none"

\* one HTTP request: kind is "login", "checkin" or "tg"; ok says that the
\* post returned (login, checkin), that it returned status 200 (tg)
Request(kind, acct, sess, chunk, ok) ==
    [kind |-> kind, acct |-> acct, session |-> sess, chunk |-> chunk, ok |-> ok]

\* a Session object every call of sign_one shares
new_session_shared(n) == 1

\* sign_one, line 209: s = requests.Session(), a new object at every call,
\* numbered by the count n of the objects created before it
new_session(n) == n + 1

\* an exception nobody catches ends the process with a traceback and status 1
Crash(where) ==
    /\ pc' = "crashed"
    /\ exit_code' = 1
    /\ raised_in' = where

\* main, line 306: accounts = parse_accounts(CONFIG)
ParseAccounts ==
    /\ pc = "start"
    /\ IF parse_accounts_raises(CONFIG)
       THEN /\ pc' = "config_error"
            /\ exit_code' = 1
            /\ raised_in' = "parse_accounts"
            /\ UNCHANGED << accounts, idx >>
       ELSE /\ accounts' = parse_accounts(CONFIG)
            /\ idx' = 1
            /\ pc' = "loop"
            /\ UNCHANGED << exit_code, raised_in >>
    /\ UNCHANGED << env, masked, session, nsess, results, log, last_res, blocks,
                    chunks, chunk_i, attempt, delivered >>

\* main, lines 311-317, once sign_one has returned r: append, print the status
\* line, go to the next account or leave the loop
AfterSignOne(r) ==
    /\ results' = Append(results, r)
    /\ IF print_raises(r)
       THEN Crash("main") /\ UNCHANGED idx
       ELSE /\ idx' = idx + 1
            /\ pc' = IF idx < Len(accounts) THEN "loop" ELSE "verdict"
            /\ UNCHANGED << exit_code, raised_in >>

\* main calls sign_one for the next account; sign_one, lines 201-214
SignOneStart ==
    /\ pc = "loop"
    /\ IF mask_email_raises(accounts[idx].email)
       THEN /\ Crash("sign_one")
            /\ UNCHANGED << idx, masked, session, nsess, results >>
       ELSE /\ masked' = mask_email(accounts[idx].email)
            /\ IF ~URL_set
               THEN /\ AfterSignOne(UrlMissingResult(masked'))
                    /\ UNCHANGED << session, nsess >>
               ELSE /\ nsess' = nsess + 1
                    /\ session' = new_session(nsess)
                    /\ pc' = "login"
                    /\ UNCHANGED << idx, results, exit_code, raised_in >>
    /\ UNCHANGED << env, accounts, log, last_res, blocks, chunks, chunk_i, attempt,
                    delivered >>

\* a login step that goes on to the check-in after any answer of the panel
Login_any_answer(reply) ==
    /\ pc = "login"
    /\ log' = Append(log, Request("login", idx, session, 0, reply.kind = "body"))
    /\ last_res' = reply
    /\ IF reply.kind = "body"
       THEN /\ pc' = "checkin"
            /\ UNCHANGED << idx, results, exit_code, raised_in >>
       ELSE AfterSignOne(login_result(masked, reply))
    /\ UNCHANGED << env, accounts, masked, session, nsess, blocks, chunks,
                    chunk_i, attempt, delivered >>

\* sign_one, lines 218-223: the login request and its answer
Login(reply) ==
    /\ pc = "login"
    /\ log' = Append(log, Request("login", idx, session, 0, reply.kind = "body"))
    /\ last_res' = reply
    /\ IF login_passes(reply)
       THEN /\ pc' = "checkin"
            /\ UNCHANGED << idx, results, exit_code, raised_in >>
       ELSE AfterSignOne(login_result(masked, reply))
    /\ UNCHANGED << env, accounts, masked, session, nsess, blocks, chunks,
                    chunk_i, attempt, delivered >>

\* a check-in step that records an exception of its request as a failed
\* check-in after a successful login
Checkin_attributed(reply) ==
    /\ pc = "checkin"
    /\ log' = Append(log, Request("checkin", idx, session, 0, reply.kind = "body"))
    /\ last_res' = reply
    /\ AfterSignOne(IF reply.kind = "raise"
                    THEN CheckinResult(masked, TRUE, FALSE, TRUE, FALSE, JStr(reply.exc))
                    ELSE checkin_result(masked, reply))
    /\ UNCHANGED << env, accounts, masked, session, nsess, blocks, chunks,
                    chunk_i, attempt, delivered >>

\* sign_one, lines 226-247: the check-in request and its answer
Checkin(reply) ==
    /\ pc = "checkin"
    /\ log' = Append(log, Request("checkin", idx, session, 0, reply.kind = "body"))
    /\ last_res' = reply
    /\ AfterSignOne(checkin_result(masked, reply))
    /\ UNCHANGED << env, accounts, masked, session, nsess, blocks, chunks,
                    chunk_i, attempt, delivered >>

\* main, lines 324-334: build the blocks and call tg_send_html_chunked; when
\* format_card_html raises, blocks holds the summary and the cards made before
Deliver(shown) ==
    IF \E i \in 1..Len(shown) : format_card_raises(shown[i])
    THEN LET k == CHOOSE i \in 1..Len(shown) :
                    /\ format_card_raises(shown[i])
                    /\ \A j \in 1..(i - 1) : ~format_card_raises(shown[j])
         IN  /\ Crash("format_card_html")
             /\ blocks' = <<format_summary_html(results)>>
                          \o [i \in 1..(k - 1) |-> format_card_html(shown[i])]
             /\ UNCHANGED << chunks, chunk_i, attempt, delivered >>
    ELSE /\ blocks' = payload_blocks(results, shown)
         /\ chunks' = tg_send_html_chunked(Join(blocks', <<"\n", "\n">>))
         /\ chunk_i' = 1
         /\ attempt' = 0
         /\ delivered' = delivered + 1
         /\ pc' = "send"
         /\ UNCHANGED << exit_code, raised_in >>

\* main, lines 320-337, up to the call of the delivery
Verdict ==
    /\ pc = "verdict"
    /\ LET hard_fail == hard_fail_of(results)
           all_ok == Len(hard_fail) = 0
       IN  IF ~all_ok THEN Deliver(hard_fail)
           ELSE IF NOTIFY_ON_SUCCESS THEN Deliver(results)
           ELSE /\ pc' = "done"
                /\ exit_code' = 0
                /\ UNCHANGED << blocks, chunks, chunk_i, attempt, delivered, raised_in >>
    /\ UNCHANGED << env, accounts, idx, masked, session, nsess, results, log,
                    last_res >>

\* tg_send_html has returned: tg_send_html_chunked calls it with the next
\* chunk, or returns to main, which ends the run (lines 328, 337)
ChunkDone ==
    /\ attempt' = 0
    /\ chunk_i' = chunk_i + 1
    /\ UNCHANGED raised_in
    /\ IF chunk_i < Len(chunks)
       THEN UNCHANGED << pc, exit_code >>
       ELSE /\ pc' = "done"
            /\ exit_code' = IF Len(hard_fail_of(results)) = 0 THEN 0 ELSE 1

\* tg_send_html, lines 132-133: no token or no chat id, return
TgSkip ==
    /\ pc = "send"
    /\ ~TG_configured
    /\ ChunkDone
    /\ UNCHANGED << env, accounts, idx, masked, session, nsess, results, log,
                    last_res, blocks, chunks, delivered >>

\* the answer of the notification channel to one request: a response with
\* its status and text, or an exception of requests.post
TgResponse(status, text) ==
    [kind |-> "body", status |-> status, text |-> text, exc |-> <<>>]

TgRaise(exc) == [kind |-> "raise", status |-> 0, text |-> <<>>, exc |-> exc]

T_ok == TgResponse(200, Chars("{\"ok\":true}"))

T_badRequest ==
    TgResponse(400, Chars("{\"ok\":false,\"error_code\":400,\"description\":\"Bad Request\"}"))

\* the text of a gateway between the program and the channel, with a lone
\* surrogate
T_surrogate == TgResponse(502, Chars("Bad Gateway ") \o <<"U+D800">>)

TgAnswers == { T_ok, T_badRequest, T_surrogate, TgRaise(TimeoutRepr) }

\* tg_send_html, lines 149-151: last_err after an attempt that failed
last_err(answer) ==
    IF answer.kind = "raise" THEN answer.exc
    ELSE IntToChars(answer.status) \o <<" ">> \o Prefix(answer.text, 200)

\* tg_send_html, lines 154-155, after the third failure: the print raises
debug_print_raises(err) ==
    DEBUG /\ err # <<>> /\ encode_raises(Chars("[TG] send failed: ") \o err)

\* tg_send_html, lines 144-155: one iteration of the retry loop; the third
\* failure leaves the loop and prints last_err when DEBUG is set
TgAttempt(answer) ==
    /\ pc = "send"
    /\ TG_configured
    /\ log' = Append(log, Request("tg", 0, 0, chunk_i,
                                  answer.kind = "body" /\ answer.status = 200))
    /\ IF answer.kind = "body" /\ answer.status = 200
       THEN ChunkDone
       ELSE IF attempt + 1 < TgAttempts
       THEN /\ attempt' = attempt + 1
            /\ UNCHANGED << chunk_i, pc, exit_code, raised_in >>
       ELSE IF debug_print_raises(last_err(answer))
       THEN /\ Crash("tg_send_html")
            /\ attempt' = attempt + 1
            /\ UNCHANGED chunk_i
       ELSE ChunkDone
    /\ UNCHANGED << env, accounts, idx, masked, session, nsess, results,
                    last_res, blocks, chunks, delivered >>

Next ==
    \/ ParseAccounts
    \/ SignOneStart
    \/ \E reply \in LoginResponses : Login(reply)
    \/ \E reply \in CheckinResponses : Checkin(reply)
    \/ Verdict
    \/ TgSkip
    \/ \E answer \in TgAnswers : TgAttempt(answer)

Spec == Init /\ [][Next]_vars

(***************************************************************************)
(* Runs whose payload is longer than one message: the panel refuses the    *)
(* login with a long message, which becomes the reason of a failure card.  *)
(***************************************************************************)
\* a refused login whose "msg" is m, written raw in the JSON text
LongRefusal(raw, m) ==
    Body(Chars("{\"ret\":0,\"msg\":\"") \o raw \o Chars("\"}"), "dict", JNum(0), JStr(m))

\* a card longer than max_len, without a blank line
L_x4000 == LongRefusal(Rep("x", 4000), Rep("x", 4000))

\* two such cards are longer than max_len together, each is shorter
L_a2000 == LongRefusal(Rep("a", 2000), Rep("a", 2000))

\* a card shorter than max_len with a blank line in the middle of the message
L_blankInside ==
    LongRefusal(Rep("b", 1500) \o Chars("\\n\\n") \o Rep("c", 1500),
                Rep("b", 1500) \o <<"\n", "\n">> \o Rep("c", 1500))

\* a part longer than max_len followed by two blank lines
L_blankRun ==
    LongRefusal(Rep("x", 3900) \o Chars("\\n\\n\\n\\ny"),
                Rep("x", 3900) \o <<"\n", "\n", "\n", "\n", "y">>)

\* the answers to the login of account i: the first account gets every one of
\* them, the second one those that keep the payload within five messages
DeliveryLoginResponses(i) ==
    IF i = 1 THEN { L_bad, L_x4000, L_a2000, L_blankInside, L_blankRun }
    ELSE { L_a2000, L_blankInside }

DeliveryConfigs == { Chars("a@x.io,p"), Chars("a@x.io,p\nbob@x.io , q") }

InitDelivery ==
    /\ Init
    /\ CONFIG \in DeliveryConfigs
    /\ URL_set
    /\ ~NOTIFY_ON_SUCCESS

NextDelivery ==
    \/ ParseAccounts
    \/ SignOneStart
    \/ \E reply \in DeliveryLoginResponses(idx) : Login(reply)
    \/ Verdict
    \/ TgSkip
    \/ \E answer \in TgAnswers : TgAttempt(answer)

SpecDelivery == InitDelivery /\ [][NextDelivery]_vars

(***************************************************************************)
(* Vocabulary of the properties.                                           *)
(***************************************************************************)
\* an outcome is a hard failure: login failed, or check-in attempted and failed
HardFailure(x) == ~x.login_ok \/ (x.checkin_executed /\ ~x.checkin_ok)

NoHardFailure == \A i \in 1..Len(results) : ~HardFailure(results[i])

\* the run is over and it had got past the parsing of the configuration
RunEnded == exit_code # -1 /\ pc # "config_error"

\* the success sentinel: 1, "1" or true
Sentinel(v) ==
    \/ v.t = "num" /\ v.n = 1
    \/ v.t = "float" /\ v.n = 10
    \/ v.t = "str" /\ v.s = Chars("1")
    \/ v.t = "bool" /\ v.n = 1

\* the requests of the sign-in protocol, in the order they were issued
SignLog == SelectSeq(log, LAMBDA q : q.kind # "tg")

\* the latest request of the sign-in protocol; last_res is its answer
LastSign == SignLog[Len(SignLog)]

\* the latest answer is the answer to a check-in request: the outcome of that
\* account was recorded in the same step
CheckinAnswered == SignLog # <<>> /\ LastSign.kind = "checkin"

\* the outcome of the account of the latest sign-in request
LastOutcome == results[LastSign.acct]

\* the latest answer is a body that parsed as a structured object
StructuredAnswer == last_res.kind = "body" /\ last_res.parsed = "dict"

\* a message holds both an action keyword and a redundancy keyword
BothKeywords(m) ==
    /\ \/ Contains(m, <<"U+7B7E", "U+5230">>)
       \/ \E i \in 0..(Len(m) - 5) : lower(SubSeq(m, i + 1, i + 5)) = Chars("check")
    /\ \E k \in { keywords[i] : i \in 1..Len(keywords) } : Contains(m, k)

TgRequested == \E i \in 1..Len(log) : log[i].kind = "tg"

(***************************************************************************)
(* C1.  When a run that got past the parsing of the configuration is over, *)
(* there is exactly one outcome per account, in input order: no failure    *)
(* while an account is processed (signing in, printing its status line)    *)
(* stops the accounts after it.                                            *)
(***************************************************************************)
C1_OneOutcomePerAccount ==
    RunEnded =>
        /\ Len(results) = Len(accounts)
        /\ \A i \in 1..Len(results) :
             ~mask_email_raises(accounts[i].email)
                => results[i].email_masked = mask_email(accounts[i].email)

(***************************************************************************)
(* C2.  sign_one never raises: no exception escapes from it, whatever the  *)
(* account and the remote endpoint do.                                     *)
(***************************************************************************)
C2_SignOneNeverRaises == raised_in # "sign_one"

(***************************************************************************)
(* C3.  A run that got past the parsing of the configuration exits with    *)
(* code 0 if and only if no outcome is a hard failure; an outcome with     *)
(* already_checked is never a hard failure.                                *)
(***************************************************************************)
C3_ExitZeroIffNoHardFailure ==
    /\ RunEnded => (exit_code = 0 <=> NoHardFailure)
    /\ \A i \in 1..Len(results) : results[i].already_checked => ~HardFailure(results[i])

(***************************************************************************)
(* C4.  A check-in answer whose message holds both an action keyword and a *)
(* redundancy keyword gives checkin_ok and already_checked, whatever the   *)
(* status flag is.                                                         *)
(***************************************************************************)
C4_RedundantWhateverStatus ==
    ( /\ CheckinAnswered /\ StructuredAnswer
      /\ last_res.msg.t = "str" /\ BothKeywords(last_res.msg.s) )
    => LastOutcome.checkin_ok /\ LastOutcome.already_checked

(***************************************************************************)
(* C4, amended.  Such an answer gives login_ok and checkin_ok, and         *)
(* already_checked exactly when the status flag is not the success         *)
(* sentinel.                                                               *)
(***************************************************************************)
C4_RedundantUnlessSuccessStatus ==
    ( /\ CheckinAnswered /\ StructuredAnswer
      /\ last_res.msg.t = "str" /\ BothKeywords(last_res.msg.s) )
    => /\ LastOutcome.login_ok /\ LastOutcome.checkin_executed
       /\ LastOutcome.checkin_ok
       /\ LastOutcome.already_checked <=> ~Sentinel(last_res.ret)

C4_Witness ==
    /\ CheckinAnswered /\ StructuredAnswer
    /\ last_res.msg.t = "str" /\ BothKeywords(last_res.msg.s)
    /\ Contains(last_res.msg.s, Chars("CHECKIN"))
    /\ ~Sentinel(last_res.ret)
    /\ LastOutcome.already_checked

(***************************************************************************)
(* C5.  Scenario B: one account, login accepted, check-in answers status 0 *)
(* with the message "already checked in today", default notification       *)
(* policy: the outcome has checkin_ok and already_checked, the run exits   *)
(* with code 0 and no notification is sent.                                *)
(***************************************************************************)
C5_ScenarioB ==
    ( /\ Len(accounts) = 1 /\ ~NOTIFY_ON_SUCCESS
      /\ CheckinAnswered /\ last_res = K_alreadyEnglish )
    => /\ LastOutcome.checkin_ok /\ LastOutcome.already_checked
       /\ exit_code \in {-1, 0}
       /\ delivered = 0 /\ ~TgRequested

(***************************************************************************)
(* C6.  A check-in answer that is a structured object with the success     *)
(* sentinel as status gives login_ok, checkin_executed, checkin_ok and not *)
(* already_checked, whatever its message field holds, and the reason is    *)
(* the message when it is a string.                                        *)
(***************************************************************************)
C6_SuccessWhateverMessage ==
    (CheckinAnswered /\ StructuredAnswer /\ Sentinel(last_res.ret))
    => /\ LastOutcome.login_ok /\ LastOutcome.checkin_executed
       /\ LastOutcome.checkin_ok /\ ~LastOutcome.already_checked
       /\ last_res.msg.t = "str" => LastOutcome.reason = JStr(strip(last_res.msg.s))

(***************************************************************************)
(* C7.  When the login answer does not parse as a structured object or its *)
(* status is not the success sentinel, the outcome of the account has      *)
(* login_ok and checkin_executed false and is a hard failure, the flow of  *)
(* the account stops there and no check-in request is issued for it, at    *)
(* that point or later (the requests of an account end when the next       *)
(* account starts).                                                        *)
(***************************************************************************)
LoginRefused ==
    /\ SignLog # <<>> /\ LastSign.kind = "login"
    /\ last_res.kind = "body"
    /\ last_res.parsed # "dict" \/ ~Sentinel(last_res.ret)

C7_LoginRefusedStopsAccount ==
    /\ LoginRefused =>
         /\ pc # "checkin"
         /\ Len(results) >= LastSign.acct
         /\ ~LastOutcome.login_ok /\ ~LastOutcome.checkin_executed
         /\ HardFailure(LastOutcome)
         /\ \A i \in 1..Len(log) :
              log[i].kind = "checkin" => log[i].acct # LastSign.acct
    /\ \A i, j \in 1..Len(SignLog) : i < j => SignLog[i].acct <= SignLog[j].acct

C7_Witness ==
    /\ LoginRefused
    /\ last_res.parsed = "dict" /\ last_res.ret = JStr(Chars("0"))
    /\ LastSign.acct = 2
    /\ \E i \in 1..Len(log) : log[i].kind = "checkin" /\ log[i].acct = 1
    /\ pc = "verdict"

(***************************************************************************)
(* C8.  Every outcome sign_one returns satisfies: not checkin_executed     *)
(* implies not checkin_ok, already_checked implies checkin_ok, and         *)
(* checkin_executed implies login_ok.                                      *)
(***************************************************************************)
C8_OutcomeInvariant ==
    \A i \in 1..Len(results) :
        /\ ~results[i].checkin_executed => ~results[i].checkin_ok
        /\ results[i].already_checked => results[i].checkin_ok
        /\ results[i].checkin_executed => results[i].login_ok

C8_Witness ==
    /\ Len(results) = 2
    /\ results[1].already_checked
    /\ CheckinAnswered /\ LastSign.acct = 2 /\ last_res.kind = "raise"
    /\ ~results[2].checkin_executed

(***************************************************************************)
(* C9.  At the end of a run the notification delivery has been invoked if  *)
(* and only if the run has a hard failure or NOTIFY_ON_SUCCESS is true; a  *)
(* run with no hard failure and NOTIFY_ON_SUCCESS false issues no request  *)
(* to the notification channel.                                            *)
(***************************************************************************)
C9_DeliveryIffFailureOrPolicy ==
    RunEnded =>
        /\ delivered > 0 <=> (~NoHardFailure \/ NOTIFY_ON_SUCCESS)
        /\ (NoHardFailure /\ ~NOTIFY_ON_SUCCESS) => ~TgRequested

(***************************************************************************)
(* C10.  The payload is built only after every account has its outcome and *)
(* is handed to the delivery exactly once: whenever blocks have been built *)
(* the delivery has been called with them, once.  It is the summary block  *)
(* followed by one block per relevant outcome in input order: the hard     *)
(* failures and no others when there are some, all the outcomes when there *)
(* are none and NOTIFY_ON_SUCCESS is true.  No request to the notification *)
(* channel precedes a request of the sign-in protocol.                     *)
(***************************************************************************)
Relevant == IF NoHardFailure THEN results ELSE SelectSeq(results, HardFailure)

C10_PayloadOnceAfterAllOutcomes ==
    /\ delivered \in {0, 1}
    /\ delivered = 0 => blocks = <<>> /\ ~TgRequested
    /\ delivered = 1 =>
         /\ Len(results) = Len(accounts)
         /\ NoHardFailure => NOTIFY_ON_SUCCESS
         /\ Len(blocks) = 1 + Len(Relevant)
         /\ blocks[1] = format_summary_html(results)
         /\ \A k \in 1..Len(Relevant) : blocks[k + 1] = format_card_html(Relevant[k])
         /\ Len(Join(blocks, <<"\n", "\n">>)) <= max_len
              => chunks = <<Join(blocks, <<"\n", "\n">>)>>
    /\ \A i, j \in 1..Len(log) : (i < j /\ log[i].kind = "tg") => log[j].kind = "tg"

(***************************************************************************)
(* Delivery.                                                               *)
(***************************************************************************)
\* the positions in the log of the requests that carried chunk c
TgTries(c) == { i \in 1..Len(log) : log[i].kind = "tg" /\ log[i].chunk = c }

\* the last request that carried chunk c
LastTry(c) == CHOOSE i \in TgTries(c) : \A j \in TgTries(c) : j <= i

\* tg_send_html has returned for chunk c
ChunkFinished(c) == pc = "done" \/ c < chunk_i

\* C11: with the channel configured, no exception leaves the delivery; a
\* chunk tg_send_html has returned for got between 1 and 3 attempts, every
\* attempt but the last one failed, and the last one either returned status
\* 200 or was the third; the chunk being sent has had only failed attempts,
\* fewer than 3; the chunks are attempted in their order and none is skipped
\* whatever happened to the earlier ones.
C11_RetryPerChunk ==
    (TG_configured /\ delivered = 1) =>
        /\ pc \in {"send", "done"} /\ raised_in = "none"
        /\ \A c \in 1..Len(chunks) :
              /\ ChunkFinished(c) =>
                    /\ Cardinality(TgTries(c)) \in 1..TgAttempts
                    /\ \A i \in TgTries(c) : i # LastTry(c) => ~log[i].ok
                    /\ log[LastTry(c)].ok \/ Cardinality(TgTries(c)) = TgAttempts
              /\ (pc = "send" /\ c = chunk_i) =>
                    /\ Cardinality(TgTries(c)) = attempt
                    /\ attempt < TgAttempts
                    /\ \A i \in TgTries(c) : ~log[i].ok
              /\ (pc = "send" /\ c > chunk_i) => TgTries(c) = {}
        /\ \A i, j \in 1..Len(log) :
              (i < j /\ log[i].kind = "tg" /\ log[j].kind = "tg")
                  => log[i].chunk <= log[j].chunk
        /\ \A i \in 1..Len(log) : log[i].kind = "tg" => log[i].chunk \in 1..Len(chunks)
        /\ pc = "send" => chunk_i \in 1..Len(chunks)

\* the text main hands to tg_send_html_chunked
Payload == Join(blocks, <<"\n", "\n">>)

\* the blocks of a text: what the double newlines separate
BlocksOf(text) == split_blank(text)

\* a text without its double-newline separators
Unseparated(text) == Join(BlocksOf(text), <<>>)

\* chunk is a run of consecutive blocks, of the blocks bs, with their separators
WholeBlocks(chunk, bs) ==
    \E i, j \in 1..Len(bs) :
        i <= j /\ chunk = Join(SubSeq(bs, i, j), <<"\n", "\n">>)

\* chunk is one of the max_len-long pieces (the last one may be shorter) of a
\* block, of the blocks bs, that is longer than max_len
PieceOfLongBlock(chunk, bs) ==
    \E k \in 1..Len(bs) :
        /\ Len(bs[k]) > max_len
        /\ \E m \in 0..(Len(bs[k]) \div max_len) :
              /\ m * max_len < Len(bs[k])
              /\ chunk = SubSeq(bs[k], m * max_len + 1,
                                Min(Len(bs[k]), (m + 1) * max_len))

\* the texts tg_send_html has been called with so far
Called == SubSeq(chunks, 1, IF pc = "done" THEN Len(chunks) ELSE Min(chunk_i, Len(chunks)))

\* C12: when a run whose payload is longer than max_len has ended,
\* tg_send_html has been called at least twice, each time with a text of at
\* most max_len characters; the texts of the calls put end to end are the
\* payload, double-newline separators left aside; and each is either a run
\* of whole blocks or a piece of a block that is itself longer than max_len.
C12_Chunking ==
    (RunEnded /\ delivered = 1 /\ Len(Payload) > max_len) =>
        LET bs == BlocksOf(Payload) IN
        /\ Len(Called) >= 2
        /\ \A c \in 1..Len(Called) : Len(Called[c]) \in 1..max_len
        /\ Join([c \in 1..Len(Called) |-> Unseparated(Called[c])], <<>>)
              = Join(bs, <<>>)
        /\ \A c \in 1..Len(Called) :
              WholeBlocks(Called[c], bs) \/ PieceOfLongBlock(Called[c], bs)

\* C13: no exception leaves the delivery and the delivery has no say in the
\* exit code: a run that ends with an uncaught exception has called no
\* delivery, the run goes on while the chunks are sent, and a run that ends
\* after them exits with 1 when an outcome is a hard failure and with 0
\* otherwise, whether the channel is unconfigured, answers 200 or fails.
C13_ExitCodeIgnoresDelivery ==
    /\ pc = "crashed" => (delivered = 0 /\ ~TgRequested)
    /\ delivered = 1 => (pc \in {"send", "done"} /\ raised_in = "none")
    /\ pc = "send" => exit_code = -1
    /\ pc = "done" => exit_code = (IF NoHardFailure THEN 0 ELSE 1)

(***************************************************************************)
(* Configuration errors and the order of the requests.                     *)
(***************************************************************************)
\* configurations with each of the errors: no account at all (empty, only a
\* comment), a line without comma in the comma format, an empty secret, an
\* empty identifier, an odd number of lines in the alternating format; all
\* but the first two have a well-formed account before the malformed line
MalformedConfigs ==
    { Chars(""),
      Chars("# only a comment\n\n"),
      Chars("a@x.io,p\nbob@x.io"),
      Chars("a@x.io,p\nbob@x.io,"),
      Chars("a@x.io,p\n,q"),
      Chars("a@x.io\np\nbob@x.io") }

\* C14: with a malformed configuration the run stops at the parsing, with
\* exit code 1: no session, no login request, no check-in request, no outcome
\* and no delivery, for the accounts before the malformed line either.
C14_ConfigErrorAborts ==
    CONFIG \in MalformedConfigs =>
        /\ pc \in {"start", "config_error"}
        /\ pc = "config_error" => (exit_code = 1 /\ raised_in = "parse_accounts")
        /\ accounts = <<>> /\ results = <<>> /\ log = <<>>
        /\ nsess = 0 /\ delivered = 0

\* the run has stopped on a configuration whose first line is a well-formed
\* account and whose second line has no comma
C14_Witness ==
    /\ CONFIG = Chars("a@x.io,p\nbob@x.io")
    /\ pc = "config_error"

\* the sign-in requests of account a issued so far
RequestsOf(a) == { i \in 1..Len(SignLog) : SignLog[i].acct = a }

\* C15: whenever a sign-in request is issued, it is for the account the loop
\* is at and no request of a later account has been issued; a login request
\* is the first request of its account; a check-in request is the second
\* request of its account, right after the login request, whose response was
\* received and is a structured object with the success sentinel.  So an
\* account has at most one login and one check-in request, and nothing is
\* retried.
C15_SequentialNoRetry ==
    [][ Len(SignLog') > Len(SignLog) =>
          LET q == SignLog'[Len(SignLog')] IN
          /\ Len(SignLog') = Len(SignLog) + 1
          /\ q.acct = idx /\ idx \in 1..Len(accounts)
          /\ \A i \in 1..Len(SignLog) : SignLog[i].acct <= q.acct
          /\ q.kind = "login" => RequestsOf(q.acct) = {}
          /\ q.kind = "checkin" =>
                /\ RequestsOf(q.acct) = {Len(SignLog)}
                /\ LastSign.kind = "login" /\ LastSign.ok
                /\ StructuredAnswer /\ Sentinel(last_res.ret) ]_vars

\* two accounts, each with its login request and then its check-in request
C15_Witness ==
    /\ Len(SignLog) = 4
    /\ [i \in 1..4 |-> SignLog[i].kind] = <<"login", "checkin", "login", "checkin">>
    /\ [i \in 1..4 |-> SignLog[i].acct] = <<1, 1, 2, 2>>

(***************************************************************************)
(* Outcomes of failed requests and of malformed or failed check-ins.       *)
(***************************************************************************)
\* C16: when the latest sign-in request, login or check-in, raised an
\* exception, the outcome of its account has the four flags false and the
\* description of the exception as its reason, and is a hard failure.
C16_ExceptionIsLoginFailure ==
    (SignLog # <<>> /\ last_res.kind = "raise") =>
        /\ Len(results) >= LastSign.acct
        /\ ~LastOutcome.login_ok /\ ~LastOutcome.checkin_executed
        /\ ~LastOutcome.checkin_ok /\ ~LastOutcome.already_checked
        /\ LastOutcome.reason.t = "str" /\ LastOutcome.reason.s = last_res.exc
        /\ LastOutcome.reason.s # <<>>
        /\ HardFailure(LastOutcome)
        /\ pc = "done" => exit_code = 1

\* the check-in request of the only account raised after its login had
\* passed, and the run has ended with exit code 1
C16_Witness ==
    /\ CheckinAnswered /\ last_res.kind = "raise"
    /\ Len(accounts) = 1 /\ Len(SignLog) = 2 /\ SignLog[1].ok
    /\ pc = "done" /\ exit_code = 1

\* C17: when the latest answer is the body of a check-in response that is not
\* a structured object, the outcome of its account is a failed check-in after
\* a successful login (login_ok and checkin_executed true, checkin_ok and
\* already_checked false) and a hard failure, whatever keywords the text has.
C17_MalformedCheckinFails ==
    (CheckinAnswered /\ last_res.kind = "body" /\ last_res.parsed # "dict") =>
        /\ Len(results) >= LastSign.acct
        /\ LastOutcome.login_ok /\ LastOutcome.checkin_executed
        /\ ~LastOutcome.checkin_ok /\ ~LastOutcome.already_checked
        /\ HardFailure(LastOutcome)
        /\ pc = "done" => exit_code = 1

\* the check-in answered a text that is not JSON and has an action keyword
\* and a redundancy keyword
C17_Witness ==
    /\ CheckinAnswered /\ last_res.kind = "body" /\ last_res.parsed # "dict"
    /\ BothKeywords(last_res.text)
    /\ Len(results) >= LastSign.acct

\* C18: two sign-in requests are sent on the same session exactly when they
\* are requests of the same account: the check-in of an account goes out on
\* the session of its login, and no two accounts share a session, accounts
\* with the same identifier included.
C18_SessionAffinity ==
    \A i, j \in 1..Len(SignLog) :
        (SignLog[i].session = SignLog[j].session) <=> (SignLog[i].acct = SignLog[j].acct)

\* two accounts with the same identifier and secret, each with a login and a
\* check-in request
C18_Witness ==
    /\ Len(accounts) = 2 /\ accounts[1] = accounts[2]
    /\ Len(SignLog) = 4
    /\ SignLog[2].kind = "checkin" /\ SignLog[4].kind = "checkin"

\* the latest answer is a structured check-in response with a status other
\* than the sentinel whose message, if it is a text, is not classified as
\* redundant
FailedCheckinAnswer ==
    /\ CheckinAnswered /\ StructuredAnswer /\ ~Sentinel(last_res.ret)
    /\ ~(last_res.msg.t = "str" /\ is_already_checked_in(strip(last_res.msg.s)))

\* C19: after a structured check-in response with a non-success status that
\* is not classified as redundant, the outcome has checkin_ok false and
\* already_checked false, and its reason is the message when the response has
\* one, otherwise a non-empty prefix of the raw text of the response.
C19_FailureDetail ==
    FailedCheckinAnswer =>
        /\ Len(results) >= LastSign.acct
        /\ ~LastOutcome.checkin_ok /\ ~LastOutcome.already_checked
        /\ IF Truthy(last_res.msg)
           THEN \/ LastOutcome.reason = last_res.msg
                \/ /\ last_res.msg.t = "str"
                   /\ LastOutcome.reason = JStr(strip(last_res.msg.s))
           ELSE /\ LastOutcome.reason.t = "str"
                /\ \E n \in 1..Len(strip(last_res.text)) :
                      LastOutcome.reason.s = Prefix(strip(last_res.text), n)

(***************************************************************************)
(* The summary block.                                                      *)
(***************************************************************************)
\* the outcomes that are hard failures
HardFailures == { i \in 1..Len(results) : HardFailure(results[i]) }

\* the texts of the summary: the pass label, the success count k of n, the
\* failure count k of n
PassLabel == <<"U+5168", "U+90E8", "U+6210", "U+529F">>
SuccessCount(k, n) ==
    <<"U+6210", "U+529F", "U+FF1A">> \o IntToChars(k) \o <<"/">> \o IntToChars(n)
FailureCount(k, n) ==
    <<"U+5931", "U+8D25", " ">> \o IntToChars(k) \o <<"/">> \o IntToChars(n)

\* C20: the summary block of a payload counts every outcome once: with n
\* accounts of which f have a hard failure, it shows the success count n - f
\* of n; it shows the pass label when f = 0 and the failure count f of n
\* otherwise, never both; and when the run ends it shows the pass label
\* exactly when the exit code is 0.
C20_SummaryAgreesWithVerdict ==
    delivered = 1 =>
        LET n == Len(accounts)
            f == Cardinality(HardFailures)
            summary == blocks[1]
        IN  /\ Len(results) = n
            /\ Contains(summary, SuccessCount(n - f, n))
            /\ Contains(summary, PassLabel) <=> f = 0
            /\ Contains(summary, FailureCount(f, n)) <=> f > 0
            /\ RunEnded => (Contains(summary, PassLabel) <=> exit_code = 0)

====
